---------------------------- MODULE Spec2Model ----------------------------
(***************************************************************************)
(* Echosphere backend: the sentiment scorer (backend/ai_services.py), the  *)
(* brand risk aggregator and the rate limiter (backend/app.py).            *)
(*                                                                         *)
(* Texts are sequences of one-character strings, so that strip, split,     *)
(* lower, the regular expressions of clean_text and Python's substring     *)
(* test `in` are computed character by character as the code does.         *)
(* Python floats are held as exact fractions [num, den] in lowest terms:   *)
(* 1.3 is 13/10, 0.3 is 3/10.  round() is Python 3's round-half-to-even.   *)
(***************************************************************************)
EXTENDS Integers, Sequences, FiniteSets, TLC

VARIABLES
    pc,                 \* where the process is: "import", "setup", "ready", "returned"
    service,            \* which class ai_service is an instance of
    use_huggingface,    \* AIService.use_huggingface
    sentiment_analyzer, \* AIService.sentiment_analyzer ("None" or "pipeline")
    text,               \* the argument of the last analyze_sentiment_ai call
    response,           \* what the pipeline answered in that call, if it was called
    processed_text,     \* what the pipeline was called with, if it was called
    result,             \* the triple the call returned
    path,               \* the return statement that produced it
    mentions,           \* the argument of the last calculate_ai_risk call
    risk,               \* what that call returned
    request_times,      \* app.py request_times: client address -> list of timestamps
    now,                \* the clock time.time() reads, in seconds
    accepted            \* history: the requests the rate limiter let through,
                        \* counted by client, endpoint and timestamp

vars == <<pc, service, use_huggingface, sentiment_analyzer, text, response,
          processed_text, result, path, mentions, risk, request_times, now,
          accepted>>

scorerVars == <<service, use_huggingface, sentiment_analyzer, text, response,
                processed_text, result, path>>

riskVars == <<mentions, risk>>

rateVars == <<request_times, now, accepted>>

(***************************************************************************)
(* Exact fractions for the float arithmetic of both files.                 *)
(***************************************************************************)
RECURSIVE GCD(_, _)
GCD(a, b) == IF b = 0 THEN a ELSE GCD(b, a % b)

Abs(n) == IF n < 0 THEN -n ELSE n

Rat(n, d) ==
    LET g == GCD(Abs(n), Abs(d))
        s == IF d < 0 THEN -1 ELSE 1
    IN  [num |-> (s * n) \div g, den |-> (s * d) \div g]

FromInt(n) == [num |-> n, den |-> 1]

RatAdd(x, y) == Rat(x.num * y.den + y.num * x.den, x.den * y.den)

RatMul(x, y) ==
    LET g1 == GCD(Abs(x.num), y.den)
        g2 == GCD(Abs(y.num), x.den)
    IN  Rat((x.num \div g1) * (y.num \div g2), (x.den \div g2) * (y.den \div g1))

RatDivInt(x, n) == Rat(x.num, x.den * n)

RatLess(x, y) == x.num * y.den < y.num * x.den

RatMin(x, y) == IF RatLess(y, x) THEN y ELSE x

RatMax(x, y) == IF RatLess(x, y) THEN y ELSE x

RatAbs(x) == [num |-> Abs(x.num), den |-> x.den]

IsInteger(x) == x.den = 1

\* Python 3 round(x) of a float: to the nearest integer, a tie to the even one.
Round(x) ==
    LET q == x.num \div x.den
        r == x.num % x.den
    IN  IF 2 * r < x.den THEN q
        ELSE IF 2 * r > x.den THEN q + 1
        ELSE IF q % 2 = 0 THEN q ELSE q + 1


(***************************************************************************)
(* Python string operations on texts (sequences of one-character strings). *)
(***************************************************************************)
\* str.lower() on the ASCII letters
UpperToLower ==
       ("A" :> "a") @@ ("B" :> "b") @@ ("C" :> "c") @@ ("D" :> "d")
    @@ ("E" :> "e") @@ ("F" :> "f") @@ ("G" :> "g") @@ ("H" :> "h")
    @@ ("I" :> "i") @@ ("J" :> "j") @@ ("K" :> "k") @@ ("L" :> "l")
    @@ ("M" :> "m") @@ ("N" :> "n") @@ ("O" :> "o") @@ ("P" :> "p")
    @@ ("Q" :> "q") @@ ("R" :> "r") @@ ("S" :> "s") @@ ("T" :> "t")
    @@ ("U" :> "u") @@ ("V" :> "v") @@ ("W" :> "w") @@ ("X" :> "x")
    @@ ("Y" :> "y") @@ ("Z" :> "z")

Digits ==
    { "0", "1", "2", "3", "4", "5", "6", "7", "8", "9" }

\* the characters str.strip(), str.split() and the regex class \s treat as space
Whitespace == {" ", "\t", "\n"}

\* the regex class \w
WordChars ==
    DOMAIN UpperToLower
    \cup { UpperToLower[c] : c \in DOMAIN UpperToLower }
    \cup Digits \cup {"_"}

LowerChar(c) == IF c \in DOMAIN UpperToLower THEN UpperToLower[c] ELSE c

\* str.lower()
Lower(s) == [i \in DOMAIN s |-> LowerChar(s[i])]

\* the characters of s at the positions in keep, in order
Keep(s, keep) ==
    IF keep = DOMAIN s THEN s
    ELSE [k \in 1..Cardinality(keep) |->
            s[CHOOSE i \in keep : Cardinality({ j \in keep : j < i }) = k - 1]]

\* str.strip()
Strip(s) ==
    LET inked == { i \in DOMAIN s : s[i] \notin Whitespace }
    IN  IF inked = {} THEN <<>>
        ELSE SubSeq(s, CHOOSE i \in inked : \A j \in inked : i <= j,
                       CHOOSE i \in inked : \A j \in inked : j <= i)

\* str.split(): the maximal runs of characters that are not whitespace
Split(s) ==
    LET starts == { i \in DOMAIN s :
                      /\ s[i] \notin Whitespace
                      /\ (i = 1 \/ s[i - 1] \in Whitespace) }
        EndOf(i) == CHOOSE j \in i..Len(s) :
                      /\ \A k \in i..j : s[k] \notin Whitespace
                      /\ (j = Len(s) \/ s[j + 1] \in Whitespace)
        StartNo(k) == CHOOSE i \in starts : Cardinality({ j \in starts : j < i }) = k - 1
    IN  [k \in 1..Cardinality(starts) |-> SubSeq(s, StartNo(k), EndOf(StartNo(k)))]

\* ' '.join(words)
RECURSIVE Join(_)
Join(words) ==
    IF words = <<>> THEN <<>>
    ELSE IF Len(words) = 1 THEN words[1]
    ELSE words[1] \o <<" ">> \o Join(Tail(words))

\* Python's substring test: pattern in s
Contains(s, pattern) ==
    \E i \in 1..(Len(s) - Len(pattern) + 1) :
        SubSeq(s, i, i + Len(pattern) - 1) = pattern

\* any(p in s for p in patterns)
ContainsAny(s, patterns) == \E p \in patterns : Contains(s, p)

\* s[:n]
Take(s, n) == SubSeq(s, 1, IF Len(s) < n THEN Len(s) ELSE n)

(***************************************************************************)
(* AIService.analyze_sentiment_enhanced: the lexicons and the context      *)
(* modifiers (backend/ai_services.py, lines 129-149).                      *)
(***************************************************************************)
positive_words ==
       (<<"l", "o", "v", "e">> :> 3)
    @@ (<<"a", "m", "a", "z", "i", "n", "g">> :> 3)
    @@ (<<"g", "r", "e", "a", "t">> :> 2)
    @@ (<<"e", "x", "c", "e", "l", "l", "e", "n", "t">> :> 3)
    @@ (<<"a", "w", "e", "s", "o", "m", "e">> :> 2)
    @@ (<<"b", "e", "s", "t">> :> 2)
    @@ (<<"p", "e", "r", "f", "e", "c", "t">> :> 3)
    @@ (<<"o", "u", "t", "s", "t", "a", "n", "d", "i", "n", "g">> :> 3)
    @@ (<<"g", "o", "o", "d">> :> 1)
    @@ (<<"n", "i", "c", "e">> :> 1)
    @@ (<<"h", "a", "p", "p", "y">> :> 2)
    @@ (<<"f", "a", "n", "t", "a", "s", "t", "i", "c">> :> 2)
    @@ (<<"b", "r", "i", "l", "l", "i", "a", "n", "t">> :> 2)
    @@ (<<"s", "u", "p", "e", "r", "b">> :> 2)
    @@ (<<"w", "o", "n", "d", "e", "r", "f", "u", "l">> :> 2)
    @@ (<<"r", "e", "c", "o", "m", "m", "e", "n", "d">> :> 2)
    @@ (<<"i", "m", "p", "r", "e", "s", "s", "e", "d">> :> 2)
    @@ (<<"p", "l", "e", "a", "s", "e", "d">> :> 1)
    @@ (<<"s", "a", "t", "i", "s", "f", "i", "e", "d">> :> 1)
    @@ (<<"e", "x", "c", "i", "t", "e", "d">> :> 2)
    @@ (<<"s", "t", "e", "l", "l", "a", "r">> :> 3)
    @@ (<<"p", "h", "e", "n", "o", "m", "e", "n", "a", "l">> :> 3)
    @@ (<<"e", "x", "c", "e", "p", "t", "i", "o", "n", "a", "l">> :> 3)
    @@ (<<"b", "e", "a", "u", "t", "i", "f", "u", "l">> :> 2)
    @@ (<<"s", "m", "o", "o", "t", "h">> :> 1)
    @@ (<<"f", "a", "s", "t">> :> 1)
    @@ (<<"r", "e", "l", "i", "a", "b", "l", "e">> :> 2)
    @@ (<<"i", "n", "n", "o", "v", "a", "t", "i", "v", "e">> :> 2)

negative_words ==
       (<<"h", "a", "t", "e">> :> 3)
    @@ (<<"t", "e", "r", "r", "i", "b", "l", "e">> :> 3)
    @@ (<<"a", "w", "f", "u", "l">> :> 3)
    @@ (<<"w", "o", "r", "s", "t">> :> 3)
    @@ (<<"d", "i", "s", "a", "p", "p", "o", "i", "n", "t", "e", "d">> :> 2)
    @@ (<<"b", "a", "d">> :> 1)
    @@ (<<"p", "o", "o", "r">> :> 2)
    @@ (<<"h", "o", "r", "r", "i", "b", "l", "e">> :> 3)
    @@ (<<"a", "n", "g", "r", "y">> :> 2)
    @@ (<<"f", "r", "u", "s", "t", "r", "a", "t", "i", "n", "g">> :> 2)
    @@ (<<"w", "a", "s", "t", "e">> :> 2)
    @@ (<<"u", "s", "e", "l", "e", "s", "s">> :> 2)
    @@ (<<"b", "r", "o", "k", "e", "n">> :> 2)
    @@ (<<"f", "a", "i", "l", "e", "d">> :> 2)
    @@ (<<"r", "u", "b", "b", "i", "s", "h">> :> 2)
    @@ (<<"a", "v", "o", "i", "d">> :> 2)
    @@ (<<"c", "o", "m", "p", "l", "a", "i", "n", "t">> :> 2)
    @@ (<<"i", "s", "s", "u", "e">> :> 1)
    @@ (<<"p", "r", "o", "b", "l", "e", "m">> :> 1)
    @@ (<<"d", "i", "s", "g", "u", "s", "t", "i", "n", "g">> :> 3)
    @@ (<<"a", "p", "p", "a", "l", "l", "i", "n", "g">> :> 3)
    @@ (<<"u", "n", "a", "c", "c", "e", "p", "t", "a", "b", "l", "e">> :> 3)
    @@ (<<"d", "r", "e", "a", "d", "f", "u", "l">> :> 3)
    @@ (<<"s", "l", "o", "w">> :> 1)
    @@ (<<"b", "u", "g", "g", "y">> :> 2)
    @@ (<<"c", "r", "a", "s", "h">> :> 2)
    @@ (<<"f", "r", "e", "e", "z", "e">> :> 1)
    @@ (<<"e", "x", "p", "e", "n", "s", "i", "v", "e">> :> 1)
    @@ (<<"o", "v", "e", "r", "p", "r", "i", "c", "e", "d">> :> 2)

\* Mutant: 'really' carries 0.3 instead of 1.3.
intensifiers_ReallyDamps ==
       (<<"v", "e", "r", "y">> :> Rat(3, 2))
    @@ (<<"r", "e", "a", "l", "l", "y">> :> Rat(3, 10))
    @@ (<<"e", "x", "t", "r", "e", "m", "e", "l", "y">> :> Rat(17, 10))
    @@ (<<"a", "b", "s", "o", "l", "u", "t", "e", "l", "y">> :> Rat(8, 5))

intensifiers ==
       (<<"v", "e", "r", "y">> :> Rat(3, 2))
    @@ (<<"r", "e", "a", "l", "l", "y">> :> Rat(13, 10))
    @@ (<<"e", "x", "t", "r", "e", "m", "e", "l", "y">> :> Rat(17, 10))
    @@ (<<"a", "b", "s", "o", "l", "u", "t", "e", "l", "y">> :> Rat(8, 5))

negations ==
       (<<"n", "o", "t">> :> FromInt(-1))
    @@ (<<"d", "o", "n", "'", "t">> :> FromInt(-1))
    @@ (<<"d", "o", "e", "s", "n", "'", "t">> :> FromInt(-1))
    @@ (<<"i", "s", "n", "'", "t">> :> FromInt(-1))
    @@ (<<"a", "r", "e", "n", "'", "t">> :> FromInt(-1))

Triple(s, e, c) == [sentiment |-> s, emotion |-> e, confidence |-> c]

\* return 'neutral', 'neutral', 50
DefaultResult == Triple("neutral", "neutral", FromInt(50))

\* lines 153-155: the scores and the modifier before the first word
ScanStart ==
    [positive_score |-> FromInt(0), negative_score |-> FromInt(0),
     modifier |-> FromInt(1)]

\* Mutant: a negated positive word keeps its weight (the sign is dropped).
PositiveWordScore_SignDropped(word, current_modifier) ==
    RatMul(FromInt(positive_words[word]), RatAbs(current_modifier))

\* lines 174-175: max(positive_words[word] * current_modifier, 0)
PositiveWordScore(word, current_modifier) ==
    RatMax(RatMul(FromInt(positive_words[word]), current_modifier), FromInt(0))

\* line 179: negative_words[word] * abs(current_modifier)
NegativeWordScore(word, current_modifier) ==
    RatMul(FromInt(negative_words[word]), RatAbs(current_modifier))

\* lines 157-180: one pass of the loop body
ScanWord(acc, word) ==
    IF word \in DOMAIN intensifiers
    THEN [acc EXCEPT !.modifier = intensifiers[word]]
    ELSE IF word \in DOMAIN negations
    THEN [acc EXCEPT !.modifier = negations[word]]
    ELSE IF word \in DOMAIN positive_words
    THEN [positive_score |-> RatAdd(acc.positive_score,
                                    PositiveWordScore(word, acc.modifier)),
          negative_score |-> acc.negative_score,
          modifier |-> FromInt(1)]
    ELSE IF word \in DOMAIN negative_words
    THEN [positive_score |-> acc.positive_score,
          negative_score |-> RatAdd(acc.negative_score,
                                    NegativeWordScore(word, acc.modifier)),
          modifier |-> FromInt(1)]
    ELSE [acc EXCEPT !.modifier = FromInt(1)]

\* lines 157-180: the loop over words
RECURSIVE Scan(_, _)
Scan(words, acc) ==
    IF words = <<>> THEN acc
    ELSE Scan(Tail(words), ScanWord(acc, Head(words)))

\* lines 152-180: the two scores of a text
WeightedScores(t) == Scan(Split(Lower(t)), ScanStart)

positive_score(t) == WeightedScores(t).positive_score

negative_score(t) == WeightedScores(t).negative_score

QuestionPatterns ==
    { <<"?">>,
      <<"h", "o", "w">>,
      <<"w", "h", "a", "t">>,
      <<"w", "h", "e", "n">>,
      <<"w", "h", "e", "r", "e">>,
      <<"w", "h", "y">> }

UncertainPatterns ==
    { <<"n", "o", "t", " ", "s", "u", "r", "e">>,
      <<"t", "h", "i", "n", "k", "i", "n", "g", " ", "a", "b", "o", "u", "t">>,
      <<"m", "a", "y", "b", "e">>,
      <<"p", "e", "r", "h", "a", "p", "s">>,
      <<"p", "o", "s", "s", "i", "b", "l", "y">> }

MixedPatterns ==
    { <<"n", "o", "t", " ", "b", "a", "d">>,
      <<"c", "o", "u", "l", "d", " ", "b", "e", " ", "w", "o", "r", "s", "e">>,
      <<"s", "o", " ", "s", "o">>,
      <<"a", "v", "e", "r", "a", "g", "e">> }

\* Mutant: the hedging phrases are tested before the interrogative markers.
analyze_neutral_sentiment_HedgingFirst(text_lower) ==
    IF ContainsAny(text_lower, UncertainPatterns)
    THEN Triple("neutral", "uncertain", FromInt(60))
    ELSE IF ContainsAny(text_lower, QuestionPatterns)
    THEN Triple("neutral", "curious", FromInt(65))
    ELSE IF ContainsAny(text_lower, MixedPatterns)
    THEN Triple("neutral", "mixed", FromInt(55))
    ELSE DefaultResult

analyze_neutral_sentiment(text_lower) ==
    IF ContainsAny(text_lower, QuestionPatterns)
    THEN Triple("neutral", "curious", FromInt(65))
    ELSE IF ContainsAny(text_lower, UncertainPatterns)
    THEN Triple("neutral", "uncertain", FromInt(60))
    ELSE IF ContainsAny(text_lower, MixedPatterns)
    THEN Triple("neutral", "mixed", FromInt(55))
    ELSE DefaultResult

ExcitementWords ==
    { <<"e", "x", "c", "i", "t", "e", "d">>,
      <<"t", "h", "r", "i", "l", "l", "e", "d">>,
      <<"a", "m", "a", "z", "i", "n", "g">>,
      <<"w", "o", "w">> }

LoveWords ==
    { <<"l", "o", "v", "e">>,
      <<"a", "d", "o", "r", "e">>,
      <<"b", "e", "a", "u", "t", "i", "f", "u", "l">>,
      <<"p", "e", "r", "f", "e", "c", "t">> }

JoyWords ==
    { <<"h", "a", "p", "p", "y">>,
      <<"p", "l", "e", "a", "s", "e", "d">>,
      <<"s", "a", "t", "i", "s", "f", "i", "e", "d">> }

AngerWords ==
    { <<"a", "n", "g", "r", "y">>,
      <<"f", "u", "r", "i", "o", "u", "s">>,
      <<"o", "u", "t", "r", "a", "g", "e", "d">>,
      <<"h", "a", "t", "e">> }

FrustrationWords ==
    { <<"f", "r", "u", "s", "t", "r", "a", "t", "e", "d">>,
      <<"a", "n", "n", "o", "y", "e", "d">>,
      <<"d", "i", "s", "a", "p", "p", "o", "i", "n", "t", "e", "d">> }

SadnessWords ==
    { <<"s", "a", "d">>,
      <<"u", "p", "s", "e", "t">>,
      <<"u", "n", "h", "a", "p", "p", "y">>,
      <<"d", "e", "p", "r", "e", "s", "s", "e", "d">> }

FearWords ==
    { <<"s", "c", "a", "r", "e", "d">>,
      <<"w", "o", "r", "r", "i", "e", "d">>,
      <<"a", "n", "x", "i", "o", "u", "s">>,
      <<"n", "e", "r", "v", "o", "u", "s">> }

\* the third argument (score) is not read
detect_emotion(t, sentiment) ==
    LET text_lower == Lower(t)
    IN  IF sentiment = "positive"
        THEN IF ContainsAny(text_lower, ExcitementWords) THEN "excitement"
             ELSE IF ContainsAny(text_lower, LoveWords) THEN "love"
             ELSE IF ContainsAny(text_lower, JoyWords) THEN "joy"
             ELSE "satisfaction"
        ELSE IF ContainsAny(text_lower, AngerWords) THEN "anger"
             ELSE IF ContainsAny(text_lower, FrustrationWords) THEN "frustration"
             ELSE IF ContainsAny(text_lower, SadnessWords) THEN "sadness"
             ELSE IF ContainsAny(text_lower, FearWords) THEN "fear"
             ELSE "disappointment"

\* Mutant: the confidence is not capped at 95.
LexiconConfidence_Uncapped(score) ==
    RatAdd(FromInt(50), RatMul(score, FromInt(3)))

\* min(95, 50 + (score * 3))
LexiconConfidence(score) ==
    RatMin(FromInt(95), RatAdd(FromInt(50), RatMul(score, FromInt(3))))

\* Mutant: equal scores are decided as positive (>= for >).
analyze_sentiment_enhanced_TiePositive(t) ==
    IF t = <<>> THEN DefaultResult
    ELSE LET scores == WeightedScores(t)
             positive == scores.positive_score
             negative == scores.negative_score
         IN  IF RatAdd(positive, negative) = FromInt(0)
             THEN analyze_neutral_sentiment(Lower(t))
             ELSE IF RatLess(positive, negative)
             THEN Triple("negative", detect_emotion(t, "negative"),
                         LexiconConfidence(negative))
             ELSE Triple("positive", detect_emotion(t, "positive"),
                         LexiconConfidence(positive))

analyze_sentiment_enhanced(t) ==
    IF t = <<>> THEN DefaultResult
    ELSE LET scores == WeightedScores(t)
             positive == scores.positive_score
             negative == scores.negative_score
         IN  IF RatAdd(positive, negative) = FromInt(0)
             THEN analyze_neutral_sentiment(Lower(t))
             ELSE IF RatLess(positive, negative)
             THEN Triple("negative", detect_emotion(t, "negative"),
                         LexiconConfidence(negative))
             ELSE IF RatLess(negative, positive)
             THEN Triple("positive", detect_emotion(t, "positive"),
                         LexiconConfidence(positive))
             ELSE Triple("neutral", "neutral", FromInt(60))

(***************************************************************************)
(* BrandAIAnalyzer.calculate_ai_risk (backend/app.py).                     *)
(* A mention is a record with the keys the function reads: sentiment,      *)
(* emotion and confidence.                                                 *)
(***************************************************************************)
IsNegativeMention(m) == m.sentiment = "negative"

IsAngerMention(m) == m.emotion \in {"anger", "frustration"}

\* m.get('confidence', 50)
GetConfidence(m) ==
    IF "confidence" \in DOMAIN m THEN m.confidence ELSE FromInt(50)

negative_mentions(ms) == SelectSeq(ms, IsNegativeMention)

negative_count(ms) == Len(SelectSeq(ms, IsNegativeMention))

anger_count(ms) == Len(SelectSeq(ms, IsAngerMention))

\* sum(m.get('confidence', 50) for m in negative_mentions), left to right
RECURSIVE total_confidence(_)
total_confidence(ms) ==
    IF ms = <<>> THEN FromInt(0)
    ELSE RatAdd(total_confidence(SubSeq(ms, 1, Len(ms) - 1)),
                GetConfidence(ms[Len(ms)]))

\* Mutant: the confidence of the last negative mention stands for the average.
avg_confidence_LastNegative(ms) ==
    IF negative_mentions(ms) # <<>>
    THEN GetConfidence(negative_mentions(ms)[Len(negative_mentions(ms))])
    ELSE FromInt(0)

avg_confidence(ms) ==
    IF negative_mentions(ms) # <<>>
    THEN RatDivInt(total_confidence(negative_mentions(ms)),
                   Len(negative_mentions(ms)))
    ELSE FromInt(0)

\* Mutant: the confidence multiplier is left out of the score.
risk_multiplier_Dropped(ms) == FromInt(1)

risk_multiplier(ms) ==
    IF negative_mentions(ms) # <<>>
    THEN RatAdd(FromInt(1), RatDivInt(avg_confidence(ms), 100))
    ELSE FromInt(1)

base_risk(ms) == (negative_count(ms) * 8) + (anger_count(ms) * 12)

confidence_risk(ms) == RatMul(avg_confidence(ms), Rat(3, 10))

volume_risk(ms) == RatMin(FromInt(20), RatMul(FromInt(Len(ms)), Rat(1, 10)))

\* Mutant: the score is not clamped to 100.
risk_score_Unclamped(ms) ==
    RatMul(RatAdd(RatAdd(FromInt(base_risk(ms)), confidence_risk(ms)),
                  volume_risk(ms)),
           risk_multiplier(ms))

\* line 168: the score before it is rounded
risk_score(ms) ==
    RatMin(FromInt(100),
           RatMul(RatAdd(RatAdd(FromInt(base_risk(ms)), confidence_risk(ms)),
                         volume_risk(ms)),
                  risk_multiplier(ms)))

\* Mutant: the tier is decided on the rounded score that is returned.
risk_level_OnRounded(score) ==
    IF Round(score) > 70 THEN "high"
    ELSE IF Round(score) > 40 THEN "medium"
    ELSE "low"

\* lines 171-176: the tier is decided on the score before it is rounded
risk_level(score) ==
    IF RatLess(FromInt(70), score) THEN "high"
    ELSE IF RatLess(FromInt(40), score) THEN "medium"
    ELSE "low"

risk_icon(level) ==
    CASE level = "high" -> "red"
      [] level = "medium" -> "yellow"
      [] OTHER -> "green"

\* Mutant: the empty batch is given the middle tier.
EmptyRisk_Medium == [risk_score |-> 0, risk_level |-> "medium", risk_icon |-> "yellow"]

EmptyRisk == [risk_score |-> 0, risk_level |-> "low", risk_icon |-> "green"]

calculate_ai_risk(ms) ==
    IF ms = <<>> THEN EmptyRisk
    ELSE [risk_score |-> Round(risk_score(ms)),
          risk_level |-> risk_level(risk_score(ms)),
          risk_icon  |-> risk_icon(risk_level(risk_score(ms)))]

(***************************************************************************)
(* The batches calculate_ai_risk is called with.  Mentions carry the       *)
(* triples the scorer returns: an integer confidence, the fractional       *)
(* confidence 53.9 of an intensified lexicon hit (50 + 1*1.3*3), and the   *)
(* neutral sentiment with a negative-branch emotion that the pipeline      *)
(* path produces.                                                          *)
(***************************************************************************)
Mention(s, e, c) == [sentiment |-> s, emotion |-> e, confidence |-> c]

MentionKinds ==
    { Mention("negative", "anger", FromInt(90)),
      Mention("negative", "disappointment", FromInt(57)),
      Mention("negative", "disappointment", Rat(539, 10)),
      Mention("positive", "joy", FromInt(80)),
      Mention("neutral", "neutral", FromInt(50)),
      Mention("neutral", "anger", FromInt(70)) }

MaxBatch == 4

UniformBatch == 10

LargeBatch == 201

\* Every batch of at most MaxBatch mentions; ten mentions of one kind; and a
\* batch large enough for the volume term to reach its cap of 20 (of mentions
\* that are not negative: a negative batch of that size is clamped to 100).
Batches ==
    UNION { [1..n -> MentionKinds] : n \in 0..MaxBatch }
    \cup { [i \in 1..UniformBatch |-> m] : m \in MentionKinds }
    \cup { [i \in 1..LargeBatch |-> m] :
                m \in { k \in MentionKinds : k.sentiment # "negative" } }

NoRisk == [risk_score |-> -1, risk_level |-> "none", risk_icon |-> "none"]


(***************************************************************************)
(* Values of the scorer's variables before any call.                       *)
(***************************************************************************)
NoText == <<>>

NoResponse == [kind |-> "none"]

NoResult == [sentiment |-> "none", emotion |-> "none", confidence |-> FromInt(0)]

(***************************************************************************)
(* The rate limiter (backend/app.py, rate_limit).  Every decorated         *)
(* endpoint shares the one dictionary request_times, keyed by the client   *)
(* address alone.  Requests are handled one at a time; each reads the      *)
(* clock, which never runs backwards.                                      *)
(***************************************************************************)
\* request.remote_addr
Clients == {"10.0.0.1", "10.0.0.2"}

\* the second address sends little: it asks /api/ai-insights only, and only
\* while it has fewer than MaxOtherRequests timestamps on record
LightClient == "10.0.0.2"

MaxOtherRequests == 1

\* the decorated endpoints the claims name, with the arguments of their
\* @rate_limit lines (/api/competitors carries those of /api/analyze)
Endpoints == {"analyze", "ai_insights"}

Limits ==
    [analyze |-> [max_requests |-> 50, window_seconds |-> 60],
     ai_insights |-> [max_requests |-> 30, window_seconds |-> 60]]

\* request.method
Methods == {"POST", "OPTIONS"}

\* the clock readings: the start, the last second of the first window and
\* the first second after it
TimePoints == {0, 59, 60}

\* request_times = {} and nothing let through yet
NoRequests ==
    /\ request_times = <<>>
    /\ now = 0
    /\ accepted = [c \in Clients, e \in Endpoints, t \in TimePoints |-> 0]

\* lines 83-84: a client not yet in the dictionary has the empty list
Times(c) == IF c \in DOMAIN request_times THEN request_times[c] ELSE <<>>

\* Mutant: the window is one second short.
WithinWindow_Short(times, window_seconds) ==
    SelectSeq(times, LAMBDA req_time : now - req_time < window_seconds - 1)

\* lines 87-88: the timestamps still inside the window
WithinWindow(times, window_seconds) ==
    SelectSeq(times, LAMBDA req_time : now - req_time < window_seconds)

\* Mutant: the limit is tested with > instead of >=.
OverLimit_OffByOne(times, max_requests) == Len(times) > max_requests

\* line 91: len(request_times[client_ip]) >= max_requests
OverLimit(times, max_requests) == Len(times) >= max_requests

\* request_times[client_ip] = times
Store(c, times) ==
    [k \in DOMAIN request_times \cup {c} |->
        IF k = c THEN times ELSE request_times[k]]

\* Mutant: a rejected request is recorded too.
Rejected_Recorded(c, live) == Store(c, Append(live, now))

\* lines 91-95: the 429 return leaves the pruned list in the dictionary
Rejected(c, live) == Store(c, live)

\* decorated_function, lines 74-99, for one request to endpoint e
Request(c, e, method) ==
    IF method = "OPTIONS"
    THEN UNCHANGED vars
    ELSE LET live == WithinWindow(Times(c), Limits[e].window_seconds)
         IN  /\ c = LightClient =>
                    e = "ai_insights" /\ Len(Times(c)) < MaxOtherRequests
             /\ IF OverLimit(live, Limits[e].max_requests)
                THEN /\ request_times' = Rejected(c, live)
                     /\ UNCHANGED accepted
                ELSE /\ request_times' = Store(c, Append(live, now))
                     /\ accepted' = [accepted EXCEPT ![c, e, now] = @ + 1]
             /\ UNCHANGED <<pc, scorerVars, riskVars, now>>

\* The clock moves on.  The history keeps, for each endpoint, what it let
\* through in the window that ends at the new reading: a request let through
\* earlier shares no window with any request still to come.
Tick ==
    /\ \E t \in TimePoints :
          /\ t > now
          /\ now' = t
          /\ accepted' =
                [c \in Clients, e \in Endpoints, u \in TimePoints |->
                    IF t - u < Limits[e].window_seconds
                    THEN accepted[c, e, u] ELSE 0]
    /\ UNCHANGED <<pc, scorerVars, riskVars, request_times>>

InitRate ==
    /\ pc = "ready"
    /\ service = "AIService"
    /\ use_huggingface = FALSE
    /\ sentiment_analyzer = "None"
    /\ text = NoText
    /\ response = NoResponse
    /\ processed_text = NoText
    /\ result = NoResult
    /\ path = "none"
    /\ mentions = <<>>
    /\ risk = NoRisk
    /\ NoRequests

NextRate ==
    \/ \E c \in Clients, e \in Endpoints, method \in Methods : Request(c, e, method)
    \/ Tick

SpecRate == InitRate /\ [][NextRate]_vars

(***************************************************************************)
(* The aggregator as a state machine: one call of calculate_ai_risk on a   *)
(* batch, and its caller taking the result.                                *)
(***************************************************************************)
InitRisk ==
    /\ pc = "ready"
    /\ service = "AIService"
    /\ use_huggingface = FALSE
    /\ sentiment_analyzer = "None"
    /\ text = NoText
    /\ response = NoResponse
    /\ processed_text = NoText
    /\ result = NoResult
    /\ path = "none"
    /\ mentions = <<>>
    /\ risk = NoRisk
    /\ NoRequests

CalculateRisk ==
    /\ pc = "ready"
    /\ \E batch \in Batches :
          /\ mentions' = batch
          /\ risk' = calculate_ai_risk(batch)
    /\ pc' = "returned"
    /\ UNCHANGED <<scorerVars, rateVars>>

RiskReturned ==
    /\ pc = "returned"
    /\ pc' = "ready"
    /\ mentions' = <<>>
    /\ risk' = NoRisk
    /\ UNCHANGED <<scorerVars, rateVars>>

NextRisk == CalculateRisk \/ RiskReturned

SpecRisk == InitRisk /\ [][NextRisk]_vars


(***************************************************************************)
(* The quantities the aggregator's claims speak of, computed from the      *)
(* batch by position and independently of the definitions above.           *)
(***************************************************************************)
NegativeAt(ms) == { i \in DOMAIN ms : ms[i].sentiment = "negative" }

AngerAt(ms) == { i \in DOMAIN ms : ms[i].emotion \in {"anger", "frustration"} }

RECURSIVE ConfidenceSum(_, _)
ConfidenceSum(ms, at) ==
    IF at = {} THEN FromInt(0)
    ELSE LET i == CHOOSE j \in at : TRUE
         IN  RatAdd(ms[i].confidence, ConfidenceSum(ms, at \ {i}))

AvgNegConfidence(ms) ==
    IF NegativeAt(ms) = {} THEN FromInt(0)
    ELSE RatDivInt(ConfidenceSum(ms, NegativeAt(ms)), Cardinality(NegativeAt(ms)))

\* negativeCount*8 + angerCount*12 + avgNegConfidence*0.3
WeightedSum(ms) ==
    RatAdd(FromInt(Cardinality(NegativeAt(ms)) * 8 + Cardinality(AngerAt(ms)) * 12),
           RatMul(AvgNegConfidence(ms), Rat(3, 10)))

\* min(100, negativeCount*8 + angerCount*12 + avgNegConfidence*0.3)
StatedScore(ms) == RatMin(FromInt(100), WeightedSum(ms))

\* min(100, (weighted sum + min(20, 0.1*size)) * (1 + avgNegConfidence/100))
ScoreBeforeRounding(ms) ==
    RatMin(FromInt(100),
           RatMul(RatAdd(WeightedSum(ms),
                         RatMin(FromInt(20), Rat(Len(ms), 10))),
                  RatAdd(FromInt(1), RatDivInt(AvgNegConfidence(ms), 100))))

ConfidencesInRange(ms) ==
    \A i \in DOMAIN ms :
        /\ ~RatLess(ms[i].confidence, FromInt(0))
        /\ ~RatLess(FromInt(100), ms[i].confidence)

RiskCalled == pc = "returned" /\ risk # NoRisk

\* C1 as stated: the returned score is min(100, negativeCount*8 + angerCount*12
\* + avgNegConfidence*0.3), with no volume term and no multiplier.
C1_StatedFormula ==
    RiskCalled => FromInt(risk.risk_score) = StatedScore(mentions)

\* C1 as amended: the returned score is round(min(100, (negativeCount*8 +
\* angerCount*12 + avgNegConfidence*0.3 + min(20, 0.1*batchSize)) *
\* (1 + avgNegConfidence/100))), rounded half to even.
C1_RiskScoreFormula ==
    RiskCalled => risk.risk_score = Round(ScoreBeforeRounding(mentions))

\* C1 witness: a batch with negative mentions was scored and the volume term and
\* the multiplier changed the result.
C1_Witness ==
    /\ RiskCalled
    /\ NegativeAt(mentions) # {}
    /\ AngerAt(mentions) # {}
    /\ risk.risk_score < 100
    /\ FromInt(risk.risk_score) # StatedScore(mentions)
    /\ risk.risk_score # Round(StatedScore(mentions))

\* C2 as stated: the tier is decided by the returned score: high exactly when it
\* is > 70, medium exactly when 40 < it <= 70, low otherwise.
C2_TierFromReturnedScore ==
    RiskCalled =>
        /\ (risk.risk_level = "high") <=> (risk.risk_score > 70)
        /\ (risk.risk_level = "medium") <=>
               (risk.risk_score > 40 /\ risk.risk_score <= 70)
        /\ (risk.risk_level = "low") <=> (risk.risk_score <= 40)

\* C2 as amended: the tier is decided by the score before it is rounded: high
\* exactly when that score is > 70, medium exactly when 40 < it <= 70, low
\* otherwise; the returned score is that score rounded.
C2_TierFromUnroundedScore ==
    RiskCalled =>
        LET x == ScoreBeforeRounding(mentions)
        IN  /\ (risk.risk_level = "high") <=> RatLess(FromInt(70), x)
            /\ (risk.risk_level = "medium") <=>
                   (RatLess(FromInt(40), x) /\ ~RatLess(FromInt(70), x))
            /\ (risk.risk_level = "low") <=> ~RatLess(FromInt(40), x)
            /\ risk.risk_score = Round(x)

\* C2 witness: a returned score of exactly 70 with tier high (the score before
\* rounding lies strictly between 70 and 70.5).
C2_Witness ==
    /\ RiskCalled
    /\ risk.risk_score = 70
    /\ risk.risk_level = "high"
    /\ RatLess(FromInt(70), ScoreBeforeRounding(mentions))

\* A returned score of exactly 40 with tier medium is reached as well.
C2_FortyMediumReached ==
    RiskCalled /\ risk.risk_score = 40 /\ risk.risk_level = "medium"


\* The permutations of 1..n, for every batch length that is reordered.
PermutationsOf ==
    [n \in 0..MaxBatch |->
        { p \in [1..n -> 1..n] : \A i, j \in 1..n : i # j => p[i] # p[j] }]

Reorderings(ms) == { [i \in DOMAIN ms |-> ms[p[i]]] : p \in PermutationsOf[Len(ms)] }

\* C7: the result of calculate_ai_risk (score, tier) is the same for every
\* reordering of the batch (checked for every batch of at most MaxBatch mentions).
C7_PermutationInvariant ==
    (RiskCalled /\ Len(mentions) <= MaxBatch) =>
        \A reordered \in Reorderings(mentions) :
            calculate_ai_risk(reordered) = risk

\* C7 witness: a batch whose negative mentions differ in confidence and are not
\* all in one place was scored.
C7_Witness ==
    /\ RiskCalled
    /\ Len(mentions) = 3
    /\ mentions[1].sentiment = "negative"
    /\ mentions[2].sentiment = "positive"
    /\ mentions[3].sentiment = "negative"
    /\ mentions[1].confidence # mentions[3].confidence
    /\ Cardinality(Reorderings(mentions)) = 6

TenAngry == [i \in 1..10 |-> Mention("negative", "anger", FromInt(90))]

\* C8: with confidences in [0,100] the returned score lies in [0,100]; whenever
\* negativeCount*8 + angerCount*12 + avgNegConfidence*0.3 is 100 or more the
\* returned score is exactly 100 and the tier is high; ten negative anger
\* mentions of confidence 90 give (100, high).
C8_ScoreClamped ==
    /\ calculate_ai_risk(TenAngry).risk_score = 100
    /\ calculate_ai_risk(TenAngry).risk_level = "high"
    /\ (RiskCalled /\ ConfidencesInRange(mentions)) =>
          /\ risk.risk_score >= 0
          /\ risk.risk_score <= 100
          /\ ~RatLess(WeightedSum(mentions), FromInt(100)) =>
                (risk.risk_score = 100 /\ risk.risk_level = "high")

\* C8 witness: the batch of ten negative anger mentions of confidence 90, whose
\* weighted sum is 227, was scored 100 and high.
C8_Witness ==
    /\ RiskCalled
    /\ mentions = TenAngry
    /\ WeightedSum(mentions) = FromInt(227)
    /\ risk.risk_score = 100
    /\ risk.risk_level = "high"

\* C9: for the empty batch calculate_ai_risk returns score 0 and tier low.
C9_EmptyBatch ==
    (RiskCalled /\ mentions = <<>>) =>
        (risk.risk_score = 0 /\ risk.risk_level = "low")

\* C9 witness: calculate_ai_risk was called with the empty batch and returned.
C9_Witness ==
    /\ RiskCalled
    /\ mentions = <<>>
    /\ risk = [risk_score |-> 0, risk_level |-> "low", risk_icon |-> "green"]


(***************************************************************************)
(* AIService.clean_text and the pipeline path (backend/ai_services.py).    *)
(***************************************************************************)
Http == <<"h", "t", "t", "p">>

\* re.sub(r'http\S+', '', text): within a run of non-whitespace characters,
\* everything from the first "http" that is followed by one more character of
\* the run, to the end of the run, is removed.
InUrl(s, i) ==
    \E k \in 1..i :
        /\ k + 4 <= Len(s)
        /\ SubSeq(s, k, k + 3) = Http
        /\ s[k + 4] \notin Whitespace
        /\ \A j \in k..i : s[j] \notin Whitespace

RemoveUrls(s) ==
    IF ~Contains(s, Http) THEN s
    ELSE Keep(s, { i \in DOMAIN s : ~InUrl(s, i) })

\* re.sub(r'[^\w\s\.\!\?]', ' ', text)
ReplaceSpecial(s) ==
    [i \in DOMAIN s |->
        IF s[i] \in WordChars \cup Whitespace \cup {".", "!", "?"}
        THEN s[i] ELSE " "]

clean_text(t) ==
    IF t = <<>> THEN <<>>
    ELSE Strip(Join(Split(ReplaceSpecial(RemoveUrls(t)))))

MaxModelInput == 512

\* Mutant: the cleaned text is passed on whole.
ProcessedText_Untruncated(t) == clean_text(t)

\* line 98: clean_text[:512]
ProcessedText(t) == Take(clean_text(t), MaxModelInput)

\* lines 104-106
MapLabel(label) ==
    IF label \in {"NEUTRAL", "LABEL_1"} THEN "neutral"
    ELSE IF label \in {"POSITIVE", "LABEL_2"} THEN "positive"
    ELSE "negative"

\* line 108: round(best_result['score'] * 100)
PipelineConfidence(score) == FromInt(Round(RatMul(score, FromInt(100))))

\* Mutant: a failed pipeline call answers with the default triple.
TransformersFallback_Default(t) == DefaultResult

\* lines 116-119: except Exception: return self.analyze_sentiment_enhanced(text)
TransformersFallback(t) == analyze_sentiment_enhanced(t)

\* What the pipeline call and the reading of its result do: "ok" is a list whose
\* first element has a label and a numeric score; every other kind raises inside
\* the try block (the call itself, results[0] of an empty list, a missing key, a
\* score that is not a number).
PipelineFails(r) == r.kind # "ok"

analyze_with_transformers(t, r) ==
    IF Len(clean_text(t)) < 3
    THEN [result |-> DefaultResult, path |-> "transformers_short",
          processed_text |-> NoText]
    ELSE IF PipelineFails(r)
    THEN [result |-> TransformersFallback(t), path |-> "transformers_failed",
          processed_text |-> ProcessedText(t)]
    ELSE [result |-> Triple(MapLabel(r.label),
                            detect_emotion(t, MapLabel(r.label)),
                            PipelineConfidence(r.score)),
          path |-> "transformers",
          processed_text |-> ProcessedText(t)]

\* Mutant: the guard of analyze_sentiment_ai tests only for the empty text.
TooShort_EmptyOnly(t) == t = <<>>

\* line 81: not text or len(text.strip()) < 2
TooShort(t) == t = <<>> \/ Len(Strip(t)) < 2

\* line 85: self.use_huggingface and self.sentiment_analyzer
UsesPipeline == use_huggingface /\ sentiment_analyzer # "None"

\* AIService.analyze_sentiment_ai, given what the pipeline would answer
analyze_sentiment_ai(t, r) ==
    IF TooShort(t)
    THEN [result |-> DefaultResult, path |-> "guard", processed_text |-> NoText]
    ELSE IF UsesPipeline
    THEN analyze_with_transformers(t, r)
    ELSE [result |-> analyze_sentiment_enhanced(t), path |-> "enhanced",
          processed_text |-> NoText]

\* whether the call reaches line 100, the pipeline call
CallsPipeline(t) == ~TooShort(t) /\ UsesPipeline /\ Len(clean_text(t)) >= 3

(***************************************************************************)
(* FallbackAIService.analyze_sentiment_ai (backend/app.py), the class that *)
(* stands in when ai_services cannot be imported.                          *)
(***************************************************************************)
FallbackPositiveWords ==
    { <<"l", "o", "v", "e">>,
      <<"g", "r", "e", "a", "t">>,
      <<"a", "m", "a", "z", "i", "n", "g">>,
      <<"g", "o", "o", "d">>,
      <<"b", "e", "s", "t">>,
      <<"a", "w", "e", "s", "o", "m", "e">> }

FallbackNegativeWords ==
    { <<"h", "a", "t", "e">>,
      <<"t", "e", "r", "r", "i", "b", "l", "e">>,
      <<"a", "w", "f", "u", "l">>,
      <<"b", "a", "d">>,
      <<"w", "o", "r", "s", "t">>,
      <<"h", "o", "r", "r", "i", "b", "l", "e">> }

positive_count(t) ==
    Cardinality({ word \in FallbackPositiveWords : Contains(Lower(t), word) })

negative_count_words(t) ==
    Cardinality({ word \in FallbackNegativeWords : Contains(Lower(t), word) })

FallbackConfidence(count) ==
    FromInt(IF 50 + count * 10 > 90 THEN 90 ELSE 50 + count * 10)

fallback_analyze_sentiment_ai(t) ==
    IF t = <<>> THEN DefaultResult
    ELSE IF positive_count(t) > negative_count_words(t)
    THEN Triple("positive", "happy", FallbackConfidence(positive_count(t)))
    ELSE IF negative_count_words(t) > positive_count(t)
    THEN Triple("negative", "sad", FallbackConfidence(negative_count_words(t)))
    ELSE DefaultResult


(***************************************************************************)
(* The texts the scorer is called with.                                    *)
(***************************************************************************)
Pieces ==
    { <<" ">>,
      <<"?">>,
      <<"a">>,
      <<"n", "o", "t">>,
      <<"g", "o", "o", "d">>,
      <<"b", "a", "d">>,
      <<"v", "e", "r", "y">>,
      <<"H", "a", "t", "e">> }

MaxPieces == 3

RECURSIVE Concat(_)
Concat(pieces) ==
    IF pieces = <<>> THEN <<>> ELSE Head(pieces) \o Concat(Tail(pieces))

\* every text made of at most MaxPieces pieces, the empty text among them
PieceTexts ==
    { Concat(ps) : ps \in UNION { [1..n -> Pieces] : n \in 0..MaxPieces } }

LexiconWords == DOMAIN positive_words \cup DOMAIN negative_words

\* every lexicon word alone, and after every negation and every intensifier
LexiconTexts ==
    LexiconWords
    \cup { n \o <<" ">> \o word : n \in DOMAIN negations, word \in LexiconWords }
    \cup { i \o <<" ">> \o word : i \in DOMAIN intensifiers, word \in LexiconWords }

SampleTexts ==
    { <<"I", " ", "l", "o", "v", "e", " ", "t", "h", "i", "s", ",", " ", "i", "t", " ", "i", "s", " ", "a", "m", "a", "z", "i", "n", "g">>,
      <<"I", " ", "h", "a", "t", "e", " ", "t", "h", "i", "s", ",", " ", "i", "t", " ", "i", "s", " ", "t", "e", "r", "r", "i", "b", "l", "e", " ", "a", "n", "d", " ", "a", "w", "f", "u", "l">>,
      <<"s", "e", "e", " ", "h", "t", "t", "p", ":", "/", "/", "t", ".", "c", "o", " ", "n", "o", "w">>,
      <<"n", "o", "t", " ", "s", "u", "r", "e", " ", "m", "a", "y", "b", "e", "?">>,
      <<"s", "o", " ", "s", "o">>,
      <<"n", "o", "t", " ", "r", "e", "a", "l", "l", "y", " ", "g", "o", "o", "d">>,
      <<"n", "o", "t", " ", "t", "h", "e", " ", "g", "o", "o", "d">>,
      <<"A", "M", "A", "Z", "I", "N", "G", "!", "!">>,
      <<"a", "-", "b">>,
      <<"-", "-">>,
      <<"h", "a", "t", "e", " ", "t", "e", "r", "r", "i", "b", "l", "e", " ", "a", "w", "f", "u", "l", " ", "w", "o", "r", "s", "t", " ", "h", "o", "r", "r", "i", "b", "l", "e", " ", "d", "i", "s", "g", "u", "s", "t", "i", "n", "g">>,
      <<"D", "i", "s", "a", "p", "p", "o", "i", "n", "t", "e", "d", " ", "b", "u", "t", " ", "h", "a", "p", "p", "y">>,
      <<"m", "a", "y", "b", "e", " ", "s", "o", " ", "s", "o">>,
      <<"w", "h", "a", "t", "?", " ", "m", "a", "y", "b", "e", " ", "s", "o", " ", "s", "o">>,
      <<"h", "o", "w", " ", "a", "v", "e", "r", "a", "g", "e">>,
      <<"\t", " ", "\n">> }

\* how far the longest text exceeds what the pipeline is given
MaxExcess == 3

\* a text of n characters: words of 99 letters separated by single spaces
LongText(n) == [i \in 1..n |-> IF i % 100 = 0 THEN " " ELSE "x"]

\* texts as long as the pipeline's limit, one longer, and MaxExcess longer
LongTexts ==
    { LongText(MaxModelInput + k) : k \in {0, 1, MaxExcess} }

Texts == PieceTexts \cup LexiconTexts \cup SampleTexts \cup LongTexts

(***************************************************************************)
(* What the pipeline may answer when it is called.                         *)
(***************************************************************************)
Labels ==
    {"POSITIVE", "LABEL_2", "NEUTRAL", "LABEL_1", "NEGATIVE", "LABEL_0", "positive"}

\* probabilities in [0,1]: 0, 0.125, 0.996 and 1
Probabilities == { FromInt(0), Rat(1, 8), Rat(249, 250), FromInt(1) }

OkResponse(label, score) == [kind |-> "ok", label |-> label, score |-> score]

Failures == { [kind |-> k] : k \in {"raises", "empty", "no_label", "no_score", "bad_score"} }

Responses ==
    { OkResponse(l, Rat(249, 250)) : l \in Labels }
    \cup { OkResponse("POSITIVE", s) : s \in Probabilities }
    \cup Failures

(***************************************************************************)
(* The scorer as a state machine: app.py imports ai_services, which        *)
(* constructs the global AIService; the service is then called one text at *)
(* a time.                                                                 *)
(***************************************************************************)
Init ==
    /\ pc = "import"
    /\ service = "none"
    /\ use_huggingface = FALSE
    /\ sentiment_analyzer = "None"
    /\ text = NoText
    /\ response = NoResponse
    /\ processed_text = NoText
    /\ result = NoResult
    /\ path = "none"
    /\ mentions = <<>>
    /\ risk = NoRisk
    /\ NoRequests

callVars == <<text, response, processed_text, result, path>>

\* app.py line 31 succeeds; AIService.__init__ lines 26-28
ImportSucceeds ==
    /\ pc = "import"
    /\ service' = "AIService"
    /\ sentiment_analyzer' = "None"
    /\ use_huggingface' = FALSE
    /\ pc' = "setup"
    /\ UNCHANGED <<callVars, riskVars, rateVars>>

\* app.py lines 33-65: ImportError, the fallback class is used
ImportFails ==
    /\ pc = "import"
    /\ service' = "FallbackAIService"
    /\ pc' = "ready"
    /\ UNCHANGED <<use_huggingface, sentiment_analyzer, callVars, riskVars, rateVars>>

\* setup_ai_models, lines 51-61: the pipeline loads
SetupLoadsModel ==
    /\ pc = "setup"
    /\ sentiment_analyzer' = "pipeline"
    /\ use_huggingface' = TRUE
    /\ pc' = "ready"
    /\ UNCHANGED <<service, callVars, riskVars, rateVars>>

\* setup_ai_models, lines 63-68, and fallback_setup: loading raised
SetupFallsBack ==
    /\ pc = "setup"
    /\ sentiment_analyzer' = "None"
    /\ use_huggingface' = FALSE
    /\ pc' = "ready"
    /\ UNCHANGED <<service, callVars, riskVars, rateVars>>

\* Mutant: a failed pipeline call switches the service to the lexicon path.
AnalyzeSentimentAI_DisablesOnFailure ==
    /\ pc = "ready"
    /\ \E t \in Texts :
          /\ text' = t
          /\ IF service = "FallbackAIService"
             THEN /\ response' = NoResponse
                  /\ result' = fallback_analyze_sentiment_ai(t)
                  /\ path' = "fallback_service"
                  /\ processed_text' = NoText
                  /\ UNCHANGED <<use_huggingface, sentiment_analyzer>>
             ELSE \E r \in IF CallsPipeline(t) THEN Responses ELSE {NoResponse} :
                  LET returned == analyze_sentiment_ai(t, r)
                  IN  /\ response' = r
                      /\ result' = returned.result
                      /\ path' = returned.path
                      /\ processed_text' = returned.processed_text
                      /\ IF returned.path = "transformers_failed"
                         THEN /\ use_huggingface' = FALSE
                              /\ sentiment_analyzer' = "None"
                         ELSE UNCHANGED <<use_huggingface, sentiment_analyzer>>
    /\ pc' = "returned"
    /\ UNCHANGED <<service, riskVars, rateVars>>

\* one call ai_service.analyze_sentiment_ai(text)
AnalyzeSentimentAI ==
    /\ pc = "ready"
    /\ \E t \in Texts :
          /\ text' = t
          /\ IF service = "FallbackAIService"
             THEN /\ response' = NoResponse
                  /\ result' = fallback_analyze_sentiment_ai(t)
                  /\ path' = "fallback_service"
                  /\ processed_text' = NoText
             ELSE \E r \in IF CallsPipeline(t) THEN Responses ELSE {NoResponse} :
                  LET returned == analyze_sentiment_ai(t, r)
                  IN  /\ response' = r
                      /\ result' = returned.result
                      /\ path' = returned.path
                      /\ processed_text' = returned.processed_text
    /\ pc' = "returned"
    /\ UNCHANGED <<service, use_huggingface, sentiment_analyzer, riskVars, rateVars>>

\* the caller takes the triple (generate_ai_mentions, app.py line 290)
ScoreReturned ==
    /\ pc = "returned"
    /\ pc' = "ready"
    /\ text' = NoText
    /\ response' = NoResponse
    /\ processed_text' = NoText
    /\ result' = NoResult
    /\ path' = "none"
    /\ UNCHANGED <<service, use_huggingface, sentiment_analyzer, riskVars, rateVars>>

Next ==
    \/ ImportSucceeds
    \/ ImportFails
    \/ SetupLoadsModel
    \/ SetupFallsBack
    \/ AnalyzeSentimentAI
    \/ ScoreReturned

Spec == Init /\ [][Next]_vars


(***************************************************************************)
(* Properties of the scorer.                                               *)
(***************************************************************************)
ScorerCalled == pc = "returned" /\ path # "none"

Sentiments == {"positive", "negative", "neutral"}

\* C3: on every path the scorer returns a confidence within [0,100] and a
\* sentiment that is one of positive, negative, neutral (the pipeline's
\* probability lies in [0,1]).
C3_ConfidenceAndSentimentInRange ==
    ScorerCalled =>
        /\ result.sentiment \in Sentiments
        /\ ~RatLess(result.confidence, FromInt(0))
        /\ ~RatLess(FromInt(100), result.confidence)

\* C3 witness: the pipeline answered with probability 1 and the scorer returned
\* confidence 100.
C3_Witness ==
    /\ ScorerCalled
    /\ path = "transformers"
    /\ response.score = FromInt(1)
    /\ result.confidence = FromInt(100)
    /\ result.sentiment = "positive"

\* On the lexicon path a weighted score of 18 is capped at confidence 95.
C3_LexiconCapReached ==
    /\ ScorerCalled
    /\ path = "enhanced"
    /\ negative_score(text) = FromInt(18)
    /\ result.confidence = FromInt(95)

PositiveEmotions == {"excitement", "love", "joy", "satisfaction"}

NegativeEmotions == {"anger", "frustration", "sadness", "fear", "disappointment"}

NeutralEmotions == {"neutral", "curious", "uncertain", "mixed"}

\* C4: every triple the scorer returns is jointly consistent: positive goes with
\* excitement, love, joy or satisfaction; negative with anger, frustration,
\* sadness, fear or disappointment; neutral with neutral, curious, uncertain
\* or mixed.
C4_JointlyConsistent ==
    ScorerCalled =>
        /\ result.sentiment = "positive" => result.emotion \in PositiveEmotions
        /\ result.sentiment = "negative" => result.emotion \in NegativeEmotions
        /\ result.sentiment = "neutral" => result.emotion \in NeutralEmotions

\* The same, for AIService alone (the fallback class of app.py left out).
C4_JointlyConsistentAIService ==
    service = "AIService" => C4_JointlyConsistent

\* the number of characters of a text that are not whitespace
SignificantChars(t) == Cardinality({ i \in DOMAIN t : t[i] \notin Whitespace })

\* C5 as stated: a text that is empty, whitespace-only or has fewer than 3
\* characters that are not whitespace is scored (neutral, neutral, 50).
C5_FewerThanThreeSignificant ==
    (ScorerCalled /\ SignificantChars(text) < 3) => result = DefaultResult

\* C5 as amended: a text that is empty, whitespace-only or has fewer than 2
\* characters once surrounding whitespace is stripped is scored
\* (neutral, neutral, 50), whichever path is in use.
C5_FewerThanTwoStripped ==
    (ScorerCalled /\ (text = <<>> \/ Len(Strip(text)) < 2)) =>
        result = DefaultResult

\* C5 witness: the one-character text "?" was scored (neutral, neutral, 50),
\* though the lexicon path would have called it curious.
C5_Witness ==
    /\ ScorerCalled
    /\ text = <<"?">>
    /\ result = DefaultResult
    /\ analyze_sentiment_enhanced(text) # DefaultResult

\* C6: when the pipeline is selected and its call or the reading of its result
\* fails, the scorer returns exactly the triple of the lexicon path for the same
\* text (and returns: no error reaches the caller).
C6_FailureFallsBackToLexicon ==
    (pc = "returned" /\ service = "AIService" /\ use_huggingface
        /\ response \in Failures) =>
        /\ result = analyze_sentiment_enhanced(text)
        /\ result.sentiment \in Sentiments

\* C6 witness: the pipeline call failed on a text the lexicon scores negative.
C6_Witness ==
    /\ pc = "returned"
    /\ use_huggingface
    /\ response = [kind |-> "raises"]
    /\ negative_score(text) = FromInt(9)
    /\ result.sentiment = "negative"
    /\ result.emotion = "anger"
    /\ result.confidence = FromInt(77)

NegatedPositive(t) ==
    \E n \in DOMAIN negations, word \in DOMAIN positive_words :
        t = n \o <<" ">> \o word

PositiveWordOf(t) ==
    CHOOSE word \in DOMAIN positive_words :
        \E n \in DOMAIN negations : t = n \o <<" ">> \o word

\* C10 as stated: for a negation n and a positive word w the positive score of
\* "n w" is 0, below that of "w", and the scorer does not return positive for it.
C10_NegationNeverPositive ==
    (ScorerCalled /\ service = "AIService" /\ NegatedPositive(text)) =>
        /\ positive_score(text) = FromInt(0)
        /\ RatLess(positive_score(text), positive_score(PositiveWordOf(text)))
        /\ result.sentiment # "positive"

\* C10 as amended: the same, where the lexicon path scores the text (no
\* pipeline loaded, or the pipeline call failed).
C10_NegationNeverPositiveLexicon ==
    (ScorerCalled /\ path \in {"enhanced", "transformers_failed"}
        /\ NegatedPositive(text)) =>
        /\ positive_score(text) = FromInt(0)
        /\ RatLess(positive_score(text), positive_score(PositiveWordOf(text)))
        /\ result.sentiment # "positive"

\* C10 witness: "not good" was scored on the lexicon path.
C10_Witness ==
    /\ ScorerCalled
    /\ path = "enhanced"
    /\ text = <<"n", "o", "t", " ", "g", "o", "o", "d">>
    /\ positive_score(<<"g", "o", "o", "d">>) = FromInt(1)
    /\ result = DefaultResult

\* the return statements of analyze_sentiment_enhanced: reached when no pipeline
\* is loaded, or when the pipeline call failed
LexiconPaths == {"enhanced", "transformers_failed"}

\* C11: for every intensifier i and every lexicon word w, the lexicon scorer
\* returns for "i w" the sentiment it returns for "w" alone, with a
\* confidence that is not lower.
C11_IntensifierMonotone ==
    \A i \in DOMAIN intensifiers, word \in LexiconWords :
        (ScorerCalled /\ path \in LexiconPaths /\ text = i \o <<" ">> \o word) =>
            LET alone == analyze_sentiment_enhanced(word)
            IN  /\ result.sentiment = alone.sentiment
                /\ ~RatLess(result.confidence, alone.confidence)

\* C11 witness: "really great" was scored on the lexicon path with
\* confidence 57.8, above the 56 of "great".
C11_Witness ==
    /\ ScorerCalled
    /\ path = "enhanced"
    /\ text = <<"r", "e", "a", "l", "l", "y", " ", "g", "r", "e", "a", "t">>
    /\ analyze_sentiment_enhanced(<<"g", "r", "e", "a", "t">>).confidence = FromInt(56)
    /\ result = Triple("positive", "satisfaction", Rat(289, 5))

\* C12: the confidence the scorer returns is an integer, for every text and on
\* every path, texts with an intensifier before a lexicon word included.
C12_ConfidenceIsInteger ==
    ScorerCalled => IsInteger(result.confidence)

\* C12, the case of the claim: an intensifier before a lexicon word, on the
\* lexicon path.
C12_IntensifiedConfidenceIsInteger ==
    \A i \in DOMAIN intensifiers, word \in LexiconWords :
        (ScorerCalled /\ path \in LexiconPaths /\ text = i \o <<" ">> \o word) =>
            IsInteger(result.confidence)

\* The scan as C13 states it: a modifier stays in force until the next lexicon
\* word is scored, and is reset to 1 by that word only.
HeldModifierScanWord(acc, word) ==
    IF word \in DOMAIN intensifiers
    THEN [acc EXCEPT !.modifier = intensifiers[word]]
    ELSE IF word \in DOMAIN negations
    THEN [acc EXCEPT !.modifier = negations[word]]
    ELSE IF word \in DOMAIN positive_words
    THEN [positive_score |-> RatAdd(acc.positive_score,
                                    PositiveWordScore(word, acc.modifier)),
          negative_score |-> acc.negative_score,
          modifier |-> FromInt(1)]
    ELSE IF word \in DOMAIN negative_words
    THEN [positive_score |-> acc.positive_score,
          negative_score |-> RatAdd(acc.negative_score,
                                    NegativeWordScore(word, acc.modifier)),
          modifier |-> FromInt(1)]
    ELSE acc

RECURSIVE HeldModifierScan(_, _)
HeldModifierScan(words, acc) ==
    IF words = <<>> THEN acc
    ELSE HeldModifierScan(Tail(words), HeldModifierScanWord(acc, Head(words)))

HeldModifierScores(t) ==
    LET acc == HeldModifierScan(Split(Lower(t)), ScanStart)
    IN  [positive_score |-> acc.positive_score,
         negative_score |-> acc.negative_score]

CodeScores(t) ==
    [positive_score |-> positive_score(t), negative_score |-> negative_score(t)]

\* C13: in the weighted scan a modifier (intensifier or negation) changes the
\* contribution of the next lexicon word after it, and every other lexicon
\* word is scored with modifier 1: the two scores of every text are those of
\* the scan that holds the modifier until the next lexicon word.
C13_ModifierAppliesToNextLexiconWord ==
    (ScorerCalled /\ path \in LexiconPaths) =>
        CodeScores(text) = HeldModifierScores(text)

\* C13 on one text: in "not the good" the negation is followed by the lexicon
\* word "good", so the text is not scored positive.
C13_NotTheGood ==
    (ScorerCalled /\ path \in LexiconPaths
        /\ text = <<"n", "o", "t", " ", "t", "h", "e", " ", "g", "o", "o", "d">>) =>
        result.sentiment # "positive"

\* min(95, 50 + score*3), as C14 states it
StatedConfidence(score) ==
    LET c == RatAdd(FromInt(50), RatMul(FromInt(3), score))
    IN  IF RatLess(FromInt(95), c) THEN FromInt(95) ELSE c

\* C14: on the lexicon path with scores not both zero, the larger score
\* decides the sentiment and the confidence is min(95, 50 + 3 * that score);
\* equal nonzero scores give (neutral, neutral, 60); and every lexicon-path
\* confidence lies in [50, 95].
C14_LexiconDecision ==
    (ScorerCalled /\ path \in LexiconPaths) =>
        LET p == positive_score(text)
            n == negative_score(text)
        IN  /\ RatLess(p, n) =>
                  /\ result.sentiment = "negative"
                  /\ result.confidence = StatedConfidence(n)
            /\ RatLess(n, p) =>
                  /\ result.sentiment = "positive"
                  /\ result.confidence = StatedConfidence(p)
            /\ (p = n /\ p # FromInt(0)) =>
                  result = Triple("neutral", "neutral", FromInt(60))
            /\ ~RatLess(result.confidence, FromInt(50))
            /\ ~RatLess(FromInt(95), result.confidence)

\* C14 witness: "good bad" has both scores 1 and was returned as
\* (neutral, neutral, 60).
C14_Witness ==
    /\ ScorerCalled
    /\ path \in LexiconPaths
    /\ text = <<"g", "o", "o", "d", " ", "b", "a", "d">>
    /\ positive_score(text) = FromInt(1)
    /\ negative_score(text) = FromInt(1)
    /\ result = Triple("neutral", "neutral", FromInt(60))

\* C14: a negative decision was reached too, at the cap of 95.
C14_NegativeCapReached ==
    /\ ScorerCalled
    /\ path \in LexiconPaths
    /\ RatLess(FromInt(15), negative_score(text))
    /\ result.sentiment = "negative"
    /\ result.confidence = FromInt(95)

Interrogative(t) == ContainsAny(Lower(t), QuestionPatterns)

Hedging(t) == ContainsAny(Lower(t), UncertainPatterns)

MixedPhrase(t) == ContainsAny(Lower(t), MixedPatterns)

\* C15: when both weighted scores are zero the lexicon scorer returns
\* (neutral, curious, 65) if an interrogative marker is present, otherwise
\* (neutral, uncertain, 60) if a hedging phrase is present, otherwise
\* (neutral, mixed, 55) if a mixed phrase is present, otherwise
\* (neutral, neutral, 50).
C15_NeutralPriority ==
    (ScorerCalled /\ path \in LexiconPaths
        /\ positive_score(text) = FromInt(0)
        /\ negative_score(text) = FromInt(0)) =>
        /\ Interrogative(text) =>
              result = Triple("neutral", "curious", FromInt(65))
        /\ (~Interrogative(text) /\ Hedging(text)) =>
              result = Triple("neutral", "uncertain", FromInt(60))
        /\ (~Interrogative(text) /\ ~Hedging(text) /\ MixedPhrase(text)) =>
              result = Triple("neutral", "mixed", FromInt(55))
        /\ (~Interrogative(text) /\ ~Hedging(text) /\ ~MixedPhrase(text)) =>
              result = Triple("neutral", "neutral", FromInt(50))

\* C15 witness: a text with an interrogative marker, a hedging phrase and a
\* mixed phrase was returned as curious.
C15_Witness ==
    /\ ScorerCalled
    /\ path \in LexiconPaths
    /\ positive_score(text) = FromInt(0)
    /\ negative_score(text) = FromInt(0)
    /\ Interrogative(text) /\ Hedging(text) /\ MixedPhrase(text)
    /\ result = Triple("neutral", "curious", FromInt(65))

\* C15: the other three ranks were returned too.
C15_LowerRanksReached ==
    /\ ScorerCalled
    /\ path \in LexiconPaths
    /\ positive_score(text) = FromInt(0)
    /\ negative_score(text) = FromInt(0)
    /\ \/ ~Interrogative(text) /\ Hedging(text) /\ MixedPhrase(text)
             /\ result.emotion = "uncertain"
       \/ ~Interrogative(text) /\ ~Hedging(text) /\ MixedPhrase(text)
             /\ result.emotion = "mixed"

\* C16: on the pipeline path POSITIVE and LABEL_2 give positive, NEUTRAL and
\* LABEL_1 give neutral, every other label gives negative; the confidence is
\* the integer nearest to probability*100 (the even one of two); and the
\* pipeline is never called with more than 512 characters.
C16_PipelineMapping ==
    /\ (ScorerCalled /\ path = "transformers") =>
          LET scaled == RatMul(response.score, FromInt(100))
              off == RatAbs(RatAdd(scaled, RatMul(FromInt(-1), result.confidence)))
          IN  /\ response.label \in {"POSITIVE", "LABEL_2"} =>
                    result.sentiment = "positive"
              /\ response.label \in {"NEUTRAL", "LABEL_1"} =>
                    result.sentiment = "neutral"
              /\ response.label \notin {"POSITIVE", "LABEL_2", "NEUTRAL", "LABEL_1"} =>
                    result.sentiment = "negative"
              /\ IsInteger(result.confidence)
              /\ ~RatLess(Rat(1, 2), off)
              /\ off = Rat(1, 2) => result.confidence.num % 2 = 0
    /\ (ScorerCalled /\ path \in {"transformers", "transformers_failed"}) =>
          Len(processed_text) <= 512

\* C16 witness: a text of more than 512 characters went to the pipeline as
\* its first 512 characters, and the answer LABEL_2 with probability 0.996
\* was returned as positive with confidence 100.
C16_Witness ==
    /\ ScorerCalled
    /\ path = "transformers"
    /\ Len(clean_text(text)) > 512
    /\ processed_text = SubSeq(text, 1, 512)
    /\ response = OkResponse("LABEL_2", Rat(249, 250))
    /\ result.sentiment = "positive"
    /\ result.confidence = FromInt(100)

\* C16: a probability of 0.125 was returned as confidence 12, and an
\* unlisted label as negative.
C16_HalfToEvenReached ==
    /\ ScorerCalled
    /\ path = "transformers"
    /\ response.score = Rat(1, 8)
    /\ result.confidence = FromInt(12)

C16_OtherLabelReached ==
    /\ ScorerCalled
    /\ path = "transformers"
    /\ response.label = "positive"
    /\ result.sentiment = "negative"

ServiceState == <<service, use_huggingface, sentiment_analyzer>>

RECURSIVE LetThrough(_, _, _)
LetThrough(c, e, ts) ==
    IF ts = {} THEN 0
    ELSE LET t == CHOOSE u \in ts : TRUE
         IN  accepted[c, e, t] + LetThrough(c, e, ts \ {t})

\* how often the timestamp t is on record for client c
Recorded(c, t) == Len(SelectSeq(Times(c), LAMBDA u : u = t))

\* C18: for each client and each rate-limited endpoint, the requests let
\* through with timestamps inside one window of window_seconds (the window
\* ending at the latest clock reading, hence every window) never number more
\* than the endpoint's max_requests; and the timestamps on record for a
\* client within the window are exactly those of its requests that were let
\* through: a request answered 429 and an OPTIONS request leave none.
C18_RateLimit ==
    \A c \in Clients :
        /\ \A e \in Endpoints :
              LetThrough(c, e, TimePoints) <= Limits[e].max_requests
        /\ \A t \in TimePoints :
              now - t < 60 =>
                  Recorded(c, t) = accepted[c, "analyze", t]
                                   + accepted[c, "ai_insights", t]

\* C18 witness: at second 60 the first client has used up /api/ai-insights
\* with requests of seconds 59 and 60, after those of second 0 left the
\* window, and the second client has been let through as well.
C18_Witness ==
    /\ now = 60
    /\ accepted["10.0.0.1", "ai_insights", 59] > 0
    /\ accepted["10.0.0.1", "ai_insights", 60] > 0
    /\ LetThrough("10.0.0.1", "ai_insights", TimePoints) = 30
    /\ Len(Times("10.0.0.1")) = 30
    /\ Recorded("10.0.0.1", 0) = 0
    /\ LetThrough("10.0.0.2", "ai_insights", TimePoints) = 1

\* C18: /api/analyze was used up too, by 50 requests.
C18_AnalyzeLimitReached ==
    /\ LetThrough("10.0.0.1", "analyze", TimePoints) = 50
    /\ Len(Times("10.0.0.1")) = 50

=============================================================================
